---------------------------- MODULE Spec2Model ----------------------------
(***************************************************************************)
(* Model of the custom-endpoint layer of zen-mcp-server:                   *)
(*   utils/endpoint_config.py      EndpointConfig (the resolver)           *)
(*   providers/unified_openai.py   UnifiedOpenAIProvider                   *)
(*   providers/openai_provider.py  OpenAIModelProvider                     *)
(*                                                                         *)
(* A Python str is a sequence of one-character strings, so that lower(),   *)
(* replace(), isalnum(), startswith(), endswith() and slicing are computed *)
(* character by character.  Characters are ASCII.  The values of           *)
(* environment variables (URLs, API keys, file paths) are opaque atoms:    *)
(* the code only passes them on and tests them for emptiness ("").         *)
(* A Python dict is a sequence of <<key, value>> pairs with distinct keys, *)
(* in insertion order; Optional[X] is <<>> (None) or <<x>>.                *)
(***************************************************************************)
EXTENDS Integers, Sequences, FiniteSets, TLC

VARIABLES
    environ,    \* os.environ: dict name -> value, in iteration order
    cfg,        \* Optional[EndpointConfig]: the resolver last constructed
    cfgRead,    \* history: what that constructor found in the configuration file, if it opened one
    unified,    \* Optional[UnifiedOpenAIProvider]: the unified adapter last constructed
    unifiedRead,\* history: what that constructor found in the configuration file, if it opened one
    called,     \* Optional: the last call on cfg, [op, model_name, ret]
    norm,       \* a model name followed by its successive normalizations
    provider,   \* Optional: the OpenAIModelProvider last constructed, [args, self]
    generated,  \* Optional: the last generate_content call on provider, [model_name, ret]
    restrictions,\* the restriction policy: the (canonical name, requested name) pairs it rejects
    capabilities,\* the get_capabilities calls on provider, in order, [model_name, ret]
    validated,  \* Optional: the last validate_model_name call on provider, [model_name, ret]
    registry,   \* the Provider Registry: dict model name -> the adapter get_provider_for_model returns
    created,    \* the number of adapter instances constructed so far
    forwarded   \* the calls on unified, in order, [op, model_name, ret]

vars ==
    <<environ, cfg, cfgRead, unified, unifiedRead, called,
      norm, provider, generated, restrictions, capabilities, validated,
      registry, created, forwarded>>

-----------------------------------------------------------------------------
(* Python str                                                              *)

LowerLetters ==
    <<"a","b","c","d","e","f","g","h","i","j","k","l","m",
      "n","o","p","q","r","s","t","u","v","w","x","y","z">>

UpperLetters ==
    <<"A","B","C","D","E","F","G","H","I","J","K","L","M",
      "N","O","P","Q","R","S","T","U","V","W","X","Y","Z">>

DigitChars == {"0","1","2","3","4","5","6","7","8","9"}

Range(s) == {s[i] : i \in DOMAIN s}

IndexOf(c, s) == CHOOSE i \in DOMAIN s : s[i] = c

\* str.lower() of one character
CharLower(c) ==
    IF c \in Range(UpperLetters) THEN LowerLetters[IndexOf(c, UpperLetters)] ELSE c

\* str.upper() of one character
CharUpper(c) ==
    IF c \in Range(LowerLetters) THEN UpperLetters[IndexOf(c, LowerLetters)] ELSE c

\* c.isalnum()
IsAlnum(c) == c \in Range(LowerLetters) \cup Range(UpperLetters) \cup DigitChars

\* s.lower()
StrLower(s) == [i \in DOMAIN s |-> CharLower(s[i])]

\* s.upper()
StrUpper(s) == [i \in DOMAIN s |-> CharUpper(s[i])]

\* s.replace(a, b) for one-character a and b
ReplaceChar(s, a, b) == [i \in DOMAIN s |-> IF s[i] = a THEN b ELSE s[i]]

\* ''.join(c for c in s if P(c))
RECURSIVE KeepChars(_, _)
KeepChars(s, keep) ==
    IF s = <<>> THEN <<>>
    ELSE (IF Head(s) \in keep THEN <<Head(s)>> ELSE <<>>) \o KeepChars(Tail(s), keep)

\* s.replace(a, '') for a one-character a
RECURSIVE RemoveChar(_, _)
RemoveChar(s, a) ==
    IF s = <<>> THEN <<>>
    ELSE (IF Head(s) = a THEN <<>> ELSE <<Head(s)>>) \o RemoveChar(Tail(s), a)

\* s.startswith(p)
StartsWith(s, p) == Len(s) >= Len(p) /\ SubSeq(s, 1, Len(p)) = p

\* s.endswith(p)
EndsWith(s, p) == Len(s) >= Len(p) /\ SubSeq(s, Len(s) - Len(p) + 1, Len(s)) = p

\* s[a:-b] for a, b > 0: empty when the two cuts cross
Slice(s, a, b) == SubSeq(s, a + 1, Len(s) - b)

\* s[:-b]
DropLast(s, b) == SubSeq(s, 1, Len(s) - b)

-----------------------------------------------------------------------------
(* Python dict (insertion-ordered) and Optional                            *)

None == <<>>

Some(x) == <<x>>

DictKeys(d) == {d[i][1] : i \in DOMAIN d}

DictHas(d, k) == k \in DictKeys(d)

DictGet(d, k) == d[CHOOSE i \in DOMAIN d : d[i][1] = k][2]

\* d[k] = v: an existing key keeps its place
DictSet(d, k, v) ==
    IF DictHas(d, k)
    THEN [i \in DOMAIN d |-> IF d[i][1] = k THEN <<k, v>> ELSE d[i]]
    ELSE Append(d, <<k, v>>)

\* d.update(other)
RECURSIVE DictUpdate(_, _)
DictUpdate(d, other) ==
    IF other = <<>> THEN d
    ELSE DictUpdate(DictSet(d, Head(other)[1], Head(other)[2]), Tail(other))

\* os.getenv(name, default)
GetEnv(env, name, default) == IF DictHas(env, name) THEN DictGet(env, name) ELSE default

-----------------------------------------------------------------------------
(* String literals of the source                                           *)

S_ENDPOINT == <<"_","E","N","D","P","O","I","N","T">>

S_API_KEY == <<"_","A","P","I","_","K","E","Y">>

S_ENDPOINTS_CONFIG == <<"_","E","N","D","P","O","I","N","T","S","_","C","O","N","F","I","G">>

S_endpoints == <<"_","e","n","d","p","o","i","n","t","s">>

S_model_endpoints == <<"m","o","d","e","l","_","e","n","d","p","o","i","n","t","s">>

S_UNIFIED_ENDPOINTS_CONFIG ==
    <<"U","N","I","F","I","E","D","_","E","N","D","P","O","I","N","T","S","_","C","O","N","F","I","G">>

S_openai == <<"o","p","e","n","a","i">>

-----------------------------------------------------------------------------
(* The configuration file, as a constructor finds it when it opens the     *)
(* path: open() fails, json.load() fails, or a parsed document             *)
(* (dict section name -> dict model name -> entry).                        *)

Unreadable == [kind |-> "unreadable"]

Malformed == [kind |-> "malformed"]

Json(doc) == [kind |-> "json", doc |-> doc]

\* `with open(config_path) as f: json.load(f)` raises
ReadRaises(read) == read.kind # "json"

\* file_config.get(section, {})
Section(read, section) ==
    IF DictHas(read.doc, section) THEN DictGet(read.doc, section) ELSE <<>>

-----------------------------------------------------------------------------
(* utils/endpoint_config.py                                                *)

\* mutant: the special characters are not removed
NormalizeModelName_NoStrip(model_name) ==
    ReplaceChar(StrLower(model_name), "_", "-")

\* mutant: the name is not lower-cased
NormalizeModelName_NoLower(model_name) ==
    LET name2 == ReplaceChar(model_name, "_", "-")
    IN  KeepChars(name2, {c \in Range(name2) : IsAlnum(c) \/ c = "-"})

\* EndpointConfig._normalize_model_name
NormalizeModelName(model_name) ==
    LET name1 == StrLower(model_name)
        name2 == ReplaceChar(name1, "_", "-")
    IN  KeepChars(name2, {c \in Range(name2) : IsAlnum(c) \/ c = "-"})

\* the key the environment scan stores for a variable's model part
EnvModelName(model_part) == ReplaceChar(StrLower(model_part), "_", "-")

\* the `for key, value in os.environ.items()` loop of _load_endpoints,
\* over the items still to visit
RECURSIVE ScanEnviron(_, _, _, _)
ScanEnviron(items, env, prefix, endpoints) ==
    IF items = <<>> THEN endpoints
    ELSE LET key == Head(items)[1]
             value == Head(items)[2]
             model_part == Slice(key, Len(prefix), Len(S_ENDPOINT))
             api_key == GetEnv(env, prefix \o model_part \o S_API_KEY, "")
         IN  IF StartsWith(key, prefix) /\ EndsWith(key, S_ENDPOINT)
             THEN ScanEnviron(Tail(items), env, prefix,
                      DictSet(endpoints, EnvModelName(model_part),
                              [base_url |-> value, api_key |-> api_key]))
             ELSE ScanEnviron(Tail(items), env, prefix, endpoints)

\* the name of the variable that holds the configuration file's path
ConfigVar(provider_type) == StrUpper(provider_type) \o S_ENDPOINTS_CONFIG

\* mutant: a failed read discards the entries loaded from the environment
LoadEndpoints_FailureClears(env, read, provider_type) ==
    LET prefix == StrUpper(provider_type) \o <<"_">>
        endpoints == ScanEnviron(env, env, prefix, <<>>)
        config_path == GetEnv(env, ConfigVar(provider_type), "")
    IN  IF config_path = "" THEN endpoints
        ELSE IF ReadRaises(read) THEN <<>>
        ELSE DictUpdate(endpoints, Section(read, provider_type \o S_endpoints))

\* EndpointConfig._load_endpoints: provider_type is self.provider_type, read
\* is what the file at config_path holds when it is opened
LoadEndpoints(env, read, provider_type) ==
    LET prefix == StrUpper(provider_type) \o <<"_">>
        endpoints == ScanEnviron(env, env, prefix, <<>>)
        config_path == GetEnv(env, ConfigVar(provider_type), "")
    IN  IF config_path # "" /\ ~ReadRaises(read)
        THEN DictUpdate(endpoints, Section(read, provider_type \o S_endpoints))
        ELSE endpoints

\* mutant: the loop without the comparison that ignores dashes
RECURSIVE ScanEndpoints_NoDashRule(_, _)
ScanEndpoints_NoDashRule(items, normalized_lower) ==
    IF items = <<>> THEN None
    ELSE IF StrLower(Head(items)[1]) = normalized_lower
         THEN Some(Head(items)[2])
         ELSE ScanEndpoints_NoDashRule(Tail(items), normalized_lower)

\* the `for configured_model, config in self._endpoints.items()` loop of
\* get_endpoint_for_model, over the items still to visit
RECURSIVE ScanEndpoints(_, _)
ScanEndpoints(items, normalized_lower) ==
    IF items = <<>> THEN None
    ELSE LET configured_model == Head(items)[1]
             config == Head(items)[2]
             configured_lower == StrLower(configured_model)
         IN  IF configured_lower = normalized_lower
             THEN Some(config)
             ELSE IF RemoveChar(configured_lower, "-") = RemoveChar(normalized_lower, "-")
             THEN Some(config)
             ELSE ScanEndpoints(Tail(items), normalized_lower)

\* EndpointConfig.get_endpoint_for_model on the map self._endpoints
GetEndpointForModel(endpoints, model_name) ==
    LET normalized_name == NormalizeModelName(model_name)
    IN  IF DictHas(endpoints, normalized_name)
        THEN Some(DictGet(endpoints, normalized_name))
        ELSE ScanEndpoints(endpoints, StrLower(normalized_name))

\* EndpointConfig.has_custom_endpoint
HasCustomEndpoint(endpoints, model_name) ==
    GetEndpointForModel(endpoints, model_name) # None

-----------------------------------------------------------------------------
(* providers/unified_openai.py: construction                               *)

\* the `for key, value in os.environ.items()` loop of _load_model_endpoints
RECURSIVE ScanAllEnviron(_, _, _)
ScanAllEnviron(items, env, endpoints) ==
    IF items = <<>> THEN endpoints
    ELSE LET key == Head(items)[1]
             value == Head(items)[2]
             stem == DropLast(key, 9)
             model_name == ReplaceChar(StrLower(stem), "_", "-")
         IN  IF EndsWith(key, S_ENDPOINT)
             THEN ScanAllEnviron(Tail(items), env,
                      DictSet(endpoints, model_name,
                              [base_url |-> value,
                               api_key |-> GetEnv(env, stem \o S_API_KEY, "")]))
             ELSE ScanAllEnviron(Tail(items), env, endpoints)

\* UnifiedOpenAIProvider._load_model_endpoints
LoadModelEndpoints(env, read) ==
    LET endpoints == ScanAllEnviron(env, env, <<>>)
        config_path == GetEnv(env, S_UNIFIED_ENDPOINTS_CONFIG, "")
    IN  IF config_path # "" /\ ~ReadRaises(read)
        THEN DictUpdate(endpoints, Section(read, S_model_endpoints))
        ELSE endpoints

-----------------------------------------------------------------------------
(* providers/openai_provider.py                                            *)

\* the base URL __init__ falls back to
DefaultBaseUrl == "https://api.openai.com/v1"

\* SUPPORTED_MODELS, a dict canonical name -> descriptor; of a descriptor the
\* model keeps the model name and the aliases
SUPPORTED_MODELS ==
    << << <<"o","3">>,
          [model_name |-> <<"o","3">>, aliases |-> <<>>] >>,
       << <<"o","3","-","m","i","n","i">>,
          [model_name |-> <<"o","3","-","m","i","n","i">>,
           aliases |-> << <<"o","3","m","i","n","i">>,
                          <<"o","3","-","m","i","n","i">> >>] >>,
       << <<"o","3","-","p","r","o","-","2","0","2","5","-","0","6","-","1","0">>,
          [model_name |-> <<"o","3","-","p","r","o","-","2","0","2","5","-","0","6","-","1","0">>,
           aliases |-> << <<"o","3","-","p","r","o">> >>] >>,
       << <<"o","4","-","m","i","n","i">>,
          [model_name |-> <<"o","4","-","m","i","n","i">>,
           aliases |-> << <<"m","i","n","i">>,
                          <<"o","4","m","i","n","i">>,
                          <<"o","4","-","m","i","n","i">> >>] >>,
       << <<"g","p","t","-","4",".","1","-","2","0","2","5","-","0","4","-","1","4">>,
          [model_name |-> <<"g","p","t","-","4",".","1","-","2","0","2","5","-","0","4","-","1","4">>,
           aliases |-> << <<"g","p","t","4",".","1">> >>] >> >>

\* the first descriptor, in table order, that lists the name among its
\* aliases, compared without regard to case; 0 if there is none
RECURSIVE AliasOwner(_, _)
AliasOwner(i, model_name) ==
    IF i > Len(SUPPORTED_MODELS) THEN 0
    ELSE IF \E a \in Range(SUPPORTED_MODELS[i][2].aliases) :
                StrLower(a) = StrLower(model_name)
         THEN i
         ELSE AliasOwner(i + 1, model_name)

\* ModelProvider._resolve_model_name: a canonical key is itself, an alias is
\* the canonical key that owns it, any other name is passed through
ResolveModelName(model_name) ==
    IF DictHas(SUPPORTED_MODELS, model_name) THEN model_name
    ELSE IF AliasOwner(1, model_name) # 0
         THEN SUPPORTED_MODELS[AliasOwner(1, model_name)][1]
         ELSE model_name

\* a call that raises
Raises(error) == [raised |-> error]

IsRaised(ret) == "raised" \in DOMAIN ret

\* OpenAICompatibleProvider.__init__(api_key, base_url=...): the adapter keeps
\* the key and the base URL its vendor client is built with
CompatibleInit(api_key, base_url) == [api_key |-> api_key, base_url |-> base_url]

\* OpenAIModelProvider.__init__(api_key, model_name, **kwargs) with the class's
\* endpoint map; model_name is Optional, base_url is kwargs.get("base_url")
OpenAIInit(endpoints, api_key, model_name, base_url) ==
    LET given == model_name # None /\ model_name[1] # <<>>
        custom_endpoint == given /\ HasCustomEndpoint(endpoints, model_name[1])
        endpoint_config == GetEndpointForModel(endpoints, model_name[1])[1]
    IN  IF custom_endpoint
        THEN IF "api_key" \notin DOMAIN endpoint_config
             THEN Raises("KeyError")
             ELSE CompatibleInit(
                      IF endpoint_config.api_key # ""
                      THEN endpoint_config.api_key ELSE api_key,
                      endpoint_config.base_url)
        ELSE CompatibleInit(api_key,
                 IF base_url = None THEN DefaultBaseUrl ELSE base_url[1])

\* the depth of delegation at which the interpreter gives up (RecursionError)
MaxDepth == 3

\* OpenAICompatibleProvider.generate_content: the vendor call, made with the
\* adapter's client; delegations counts the transient adapters on the way
VendorCall(self, model_name, delegations) ==
    [base_url |-> self.base_url, api_key |-> self.api_key,
     model |-> model_name, delegations |-> delegations]

\* OpenAIModelProvider.generate_content(model_name) on adapter self
RECURSIVE GenerateContent(_, _, _, _)
GenerateContent(endpoints, self, model_name, depth) ==
    LET resolved_model_name == ResolveModelName(model_name)
    IN  IF HasCustomEndpoint(endpoints, model_name)
        THEN LET endpoint_config == GetEndpointForModel(endpoints, model_name)[1]
                 custom_provider ==
                     OpenAIInit(endpoints,
                                IF "api_key" \in DOMAIN endpoint_config
                                THEN endpoint_config.api_key ELSE self.api_key,
                                Some(model_name),
                                Some(endpoint_config.base_url))
             IN  IF IsRaised(custom_provider) THEN custom_provider
                 ELSE IF depth >= MaxDepth THEN Raises("RecursionError")
                 ELSE GenerateContent(endpoints, custom_provider,
                                      resolved_model_name, depth + 1)
        ELSE VendorCall(self, resolved_model_name, depth)

\* what generate_content(model_name) leaves behind: the adapter self and the
\* class's endpoint map after the call.  The method assigns no attribute of
\* self or of the class; the transient adapter is a new object, dropped when
\* the call returns
GenerateContentEffect_Rebinds(endpoints, self, model_name) ==
    IF HasCustomEndpoint(endpoints, model_name)
    THEN LET endpoint_config == GetEndpointForModel(endpoints, model_name)[1]
         IN  [self |-> [self EXCEPT !.base_url = endpoint_config.base_url],
              endpoints |-> endpoints]
    ELSE [self |-> self, endpoints |-> endpoints]

GenerateContentEffect(endpoints, self, model_name) ==
    [self |-> self, endpoints |-> endpoints]

\* get_restriction_service().is_allowed(provider_type, canonical, requested):
\* the policy's answer for the pair
IsAllowed(policy, provider_type, resolved_name, model_name) ==
    <<resolved_name, model_name>> \notin policy

\* OpenAIModelProvider.get_capabilities(model_name) under a policy
GetCapabilities_NoResolve(policy, model_name) ==
    IF ~DictHas(SUPPORTED_MODELS, model_name)
    THEN Raises("ValueError: Unsupported OpenAI model")
    ELSE IF ~IsAllowed(policy, S_openai, model_name, model_name)
    THEN Raises("ValueError: not allowed by restriction policy")
    ELSE DictGet(SUPPORTED_MODELS, model_name)

GetCapabilities(policy, model_name) ==
    LET resolved_name == ResolveModelName(model_name)
    IN  IF ~DictHas(SUPPORTED_MODELS, resolved_name)
        THEN Raises("ValueError: Unsupported OpenAI model")
        ELSE IF ~IsAllowed(policy, S_openai, resolved_name, model_name)
        THEN Raises("ValueError: not allowed by restriction policy")
        ELSE DictGet(SUPPORTED_MODELS, resolved_name)

\* OpenAIModelProvider.validate_model_name(model_name) under a policy
ValidateModelName_NoPolicy(policy, model_name) ==
    DictHas(SUPPORTED_MODELS, ResolveModelName(model_name))

ValidateModelName(policy, model_name) ==
    LET resolved_name == ResolveModelName(model_name)
    IN  IF ~DictHas(SUPPORTED_MODELS, resolved_name)
        THEN FALSE
        ELSE IF ~IsAllowed(policy, S_openai, resolved_name, model_name)
        THEN FALSE
        ELSE TRUE

-----------------------------------------------------------------------------
(* providers/unified_openai.py: routing                                    *)

\* the first configured model, in dict order, that equals the name without
\* regard to case
RECURSIVE ScanModelEndpoints(_, _)
ScanModelEndpoints(items, model_lower) ==
    IF items = <<>> THEN None
    ELSE IF StrLower(items[1][1]) = model_lower THEN Some(items[1][2])
    ELSE ScanModelEndpoints(Tail(items), model_lower)

\* UnifiedOpenAIProvider._get_endpoint_for_model(model_name)
UnifiedGetEndpointForModel(model_endpoints, model_name) ==
    IF DictHas(model_endpoints, model_name)
    THEN Some(DictGet(model_endpoints, model_name))
    ELSE ScanModelEndpoints(model_endpoints, StrLower(model_name))

\* Python truth of an Optional[dict]: not None and not empty
IsTruthy(endpoint_config) ==
    endpoint_config # None /\ DOMAIN endpoint_config[1] # {}

\* CustomProvider(api_key, base_url): the id-th adapter constructed
CustomProvider(id, api_key, base_url) ==
    [id |-> id, class |-> "CustomProvider", api_key |-> api_key, base_url |-> base_url]

\* ModelProviderRegistry.get_provider_for_model(model_name)
GetProviderForModel(reg, model_name) ==
    IF DictHas(reg, model_name) THEN Some(DictGet(reg, model_name)) ELSE None

\* UnifiedOpenAIProvider._get_underlying_provider(model_name) on adapter self,
\* n adapters having been constructed so far: the adapter after the call, the
\* provider returned and the number of adapters constructed
GetUnderlyingProvider_NoCache(self, reg, n, model_name) ==
    LET endpoint_config == UnifiedGetEndpointForModel(self.model_endpoints, model_name)
        found == GetProviderForModel(reg, model_name)
    IN  IF IsTruthy(endpoint_config)
        THEN LET p == CustomProvider(n + 1,
                          IF "api_key" \in DOMAIN endpoint_config[1]
                          THEN endpoint_config[1].api_key ELSE "",
                          endpoint_config[1].base_url)
             IN  [self |-> [self EXCEPT !.provider_cache = DictSet(@, model_name, p)],
                  provider |-> Some(p), created |-> n + 1]
        ELSE IF found # None
        THEN [self |-> [self EXCEPT !.provider_cache = DictSet(@, model_name, found[1])],
              provider |-> found, created |-> n]
        ELSE [self |-> self, provider |-> None, created |-> n]

GetUnderlyingProvider_RegistryFirst(self, reg, n, model_name) ==
    LET endpoint_config == UnifiedGetEndpointForModel(self.model_endpoints, model_name)
        found == GetProviderForModel(reg, model_name)
    IN  IF DictHas(self.provider_cache, model_name)
        THEN [self |-> self, provider |-> Some(DictGet(self.provider_cache, model_name)),
              created |-> n]
        ELSE IF found # None
        THEN [self |-> [self EXCEPT !.provider_cache = DictSet(@, model_name, found[1])],
              provider |-> found, created |-> n]
        ELSE IF IsTruthy(endpoint_config)
        THEN LET p == CustomProvider(n + 1,
                          IF "api_key" \in DOMAIN endpoint_config[1]
                          THEN endpoint_config[1].api_key ELSE "",
                          endpoint_config[1].base_url)
             IN  [self |-> [self EXCEPT !.provider_cache = DictSet(@, model_name, p)],
                  provider |-> Some(p), created |-> n + 1]
        ELSE [self |-> self, provider |-> None, created |-> n]

GetUnderlyingProvider(self, reg, n, model_name) ==
    LET endpoint_config == UnifiedGetEndpointForModel(self.model_endpoints, model_name)
        found == GetProviderForModel(reg, model_name)
    IN  IF DictHas(self.provider_cache, model_name)
        THEN [self |-> self, provider |-> Some(DictGet(self.provider_cache, model_name)),
              created |-> n]
        ELSE IF IsTruthy(endpoint_config)
        THEN LET p == CustomProvider(n + 1,
                          IF "api_key" \in DOMAIN endpoint_config[1]
                          THEN endpoint_config[1].api_key ELSE "",
                          endpoint_config[1].base_url)
             IN  [self |-> [self EXCEPT !.provider_cache = DictSet(@, model_name, p)],
                  provider |-> Some(p), created |-> n + 1]
        ELSE IF found # None
        THEN [self |-> [self EXCEPT !.provider_cache = DictSet(@, model_name, found[1])],
              provider |-> found, created |-> n]
        ELSE [self |-> self, provider |-> None, created |-> n]

\* the operations the unified adapter forwards to the underlying provider
ForwardedOps ==
    {"generate_content", "get_capabilities", "supports_thinking_mode", "count_tokens"}

\* what an operation does when there is no underlying provider
WithoutProvider(op) ==
    IF op \in {"generate_content", "get_capabilities"}
    THEN Raises("ValueError: No provider found for model")
    ELSE IF op = "supports_thinking_mode" THEN [returned |-> "False"]
    ELSE [returned |-> "len(text) // 4"]

\* UnifiedOpenAIProvider.generate_content, get_capabilities,
\* supports_thinking_mode, count_tokens (op) for model_name: the adapter after
\* the call, the number of adapters constructed, and the outcome: the call
\* forwarded to a provider, or what the adapter does without one
UnifiedCall(self, reg, n, op, model_name) ==
    LET u == GetUnderlyingProvider(self, reg, n, model_name)
    IN  [self |-> u.self, created |-> u.created,
         ret |-> IF u.provider = None
                 THEN WithoutProvider(op)
                 ELSE [to |-> u.provider[1], op |-> op, model_name |-> model_name]]

\* UnifiedOpenAIProvider.validate_model_name(model_name)
UnifiedValidateModelName_EndpointOnly(self, reg, model_name) ==
    IsTruthy(UnifiedGetEndpointForModel(self.model_endpoints, model_name))

UnifiedValidateModelName(self, reg, model_name) ==
    IF IsTruthy(UnifiedGetEndpointForModel(self.model_endpoints, model_name))
    THEN TRUE
    ELSE GetProviderForModel(reg, model_name) # None

-----------------------------------------------------------------------------
(* Inputs                                                                  *)

\* the longest model name a caller asks for, and the number of variables set
\* in the environment, and of entries in a section of the configuration file
MaxNameLen == 2

MaxEnv == 2

MaxFile == 1

\* the characters of the model names callers ask for: a lower-case and an
\* upper-case letter, a digit, the two separators and a special character
NameChars == {"o", "O", "3", "-", "_", "."}

StringsUpTo(chars, n) == UNION {[1..k -> chars] : k \in 0..n}

\* the <MODEL> parts of the variables in the environment
ModelParts ==
    { <<"O","3">>, <<"O","_","3">>, <<"O",".","3">>, <<"o","3">>, <<>> }

EndpointVar(provider_type, model_part) ==
    StrUpper(provider_type) \o <<"_">> \o model_part \o S_ENDPOINT

ApiKeyVar(provider_type, model_part) ==
    StrUpper(provider_type) \o <<"_">> \o model_part \o S_API_KEY

ProviderTypes == {S_openai}

\* the <MODEL> parts that also have an API-key variable
KeyedParts == { <<"O","3">>, <<"O",".","3">> }

EnvNames ==
    {EndpointVar(S_openai, p) : p \in ModelParts}
    \cup {ApiKeyVar(S_openai, p) : p \in KeyedParts}
    \cup {ConfigVar(S_openai), S_UNIFIED_ENDPOINTS_CONFIG}

EnvValues == {"v1", "v2"}

\* every dict of at most n items with keys in K and values in V, in every order
DictsUpTo(K, V, n) ==
    {d \in StringsUpTo(K \X V, n) : \A i, j \in DOMAIN d : d[i][1] = d[j][1] => i = j}

Environments == DictsUpTo(EnvNames, EnvValues, MaxEnv)

\* the model names and entries of a configuration file
FileKeys == { <<"o","3">>, <<"O","3">>, <<"o","-","3">>, <<"o",".","3">> }

FileEntries ==
    { [base_url |-> "f1", api_key |-> "fk"],
      [base_url |-> "f1", api_key |-> ""],
      [base_url |-> "f2"] }

FileSections == {S_openai \o S_endpoints, S_model_endpoints}

FileDocs ==
    {<<>>} \cup { << <<sec, obj>> >> :
                    sec \in FileSections, obj \in DictsUpTo(FileKeys, FileEntries, MaxFile) }

FileReads == {Unreadable, Malformed} \cup {Json(doc) : doc \in FileDocs}

\* the model names asked for
ModelNames ==
    StringsUpTo(NameChars, MaxNameLen) \cup {StrLower(p) : p \in ModelParts} \cup FileKeys

\* the <MODEL> parts of the variables set for the OpenAI adapter: a canonical
\* name and an alias
OpenAIModelParts == { <<"O","3">>, <<"M","I","N","I">> }

OpenAIEnvNames ==
    {EndpointVar(S_openai, p) : p \in OpenAIModelParts}
    \cup {ApiKeyVar(S_openai, p) : p \in OpenAIModelParts}
    \cup {ConfigVar(S_openai)}

\* what the adapter's class finds in the configuration file
OpenAIFileReads ==
    {Malformed} \cup
    { Json(<< <<S_openai \o S_endpoints, << <<k, e>> >> >> >>) :
        k \in { <<"o","3">>, <<"m","i","n","i">> }, e \in FileEntries }

\* the keys callers construct adapters with, and the model names they give
ApiKeys == {"sk"}

OpenAIModelNames ==
    { <<"o","3">>, <<"m","i","n","i">>, <<"o","4","-","m","i","n","i">> }


\* the names capabilities are asked for: every canonical name and every alias
\* of the table, and a name that is neither
UnknownName == <<"g","p","t","4">>

CapabilityNames ==
    DictKeys(SUPPORTED_MODELS)
    \cup UNION {Range(SUPPORTED_MODELS[i][2].aliases) : i \in DOMAIN SUPPORTED_MODELS}
    \cup {UnknownName}

\* the restriction policies: the pairs (canonical name, requested name) a
\* policy rejects
RestrictedPairs ==
    { << <<"o","3","-","m","i","n","i">>, <<"o","3","m","i","n","i">> >>,
      << <<"o","3","-","m","i","n","i">>, <<"o","3","-","m","i","n","i">> >>,
      << <<"o","4","-","m","i","n","i">>, <<"m","i","n","i">> >> }

Policies == SUBSET RestrictedPairs

\* the number of get_capabilities calls observed on an adapter
MaxCalls == 2

\* the variables of the unified adapter's environment
UnifiedEnvNames ==
    { <<"O","3">> \o S_ENDPOINT, <<"O","3">> \o S_API_KEY, S_UNIFIED_ENDPOINTS_CONFIG }

UnifiedEnvironments == DictsUpTo(UnifiedEnvNames, EnvValues, MaxEnv)

\* the model names the unified adapter is asked for, and the ones the
\* registry comes to know
UnifiedModelNames == { <<"o","3">>, <<"O","3">>, UnknownName }

RegistryModelNames == { <<"o","3">>, UnknownName }

-----------------------------------------------------------------------------
(* State machine                                                           *)

\* a process starts in some environment; nothing is constructed yet
Init ==
    /\ environ \in Environments
    /\ cfg = None
    /\ cfgRead = None
    /\ unified = None
    /\ unifiedRead = None
    /\ called = None
    /\ norm = <<>>
    /\ provider = None
    /\ generated = None
    /\ restrictions = {}
    /\ capabilities = <<>>
    /\ validated = None
    /\ registry = None
    /\ created = 0
    /\ forwarded = None

\* EndpointConfig(provider_type): __init__ lower-cases the type and loads the map.
\* The file is opened only when the configuration variable is set and not empty.
\* A run constructs one resolver.
NewEndpointConfig(provider_type) ==
    /\ cfg = None
    /\ \E read \in FileReads :
        LET pt == StrLower(provider_type)
            opens == GetEnv(environ, ConfigVar(pt), "") # ""
        IN  /\ opens \/ read = Unreadable
            /\ cfg' = Some([provider_type |-> pt,
                            endpoints |-> LoadEndpoints(environ, read, pt)])
            /\ cfgRead' = IF opens THEN Some(read) ELSE None
            /\ UNCHANGED <<environ, unified, unifiedRead, called, norm, provider, generated,
                 restrictions, capabilities, validated,
                 registry, created, forwarded>>

\* UnifiedOpenAIProvider(): __init__ loads the map and starts with an empty cache
NewUnifiedOpenAIProvider ==
    /\ unified = None
    /\ \E read \in FileReads :
        LET opens == GetEnv(environ, S_UNIFIED_ENDPOINTS_CONFIG, "") # ""
        IN  /\ opens \/ read = Unreadable
            /\ unified' = Some([model_endpoints |-> LoadModelEndpoints(environ, read),
                                provider_cache |-> <<>>])
            /\ unifiedRead' = IF opens THEN Some(read) ELSE None
            /\ UNCHANGED <<environ, cfg, cfgRead, called, norm, provider, generated,
                 restrictions, capabilities, validated,
                 registry, created, forwarded>>

\* cfg.get_endpoint_for_model(model_name).  A lookup only reads self._endpoints,
\* so one lookup is observed per constructed resolver.
CallGetEndpointForModel(model_name) ==
    /\ cfg # None
    /\ called = None
    /\ called' = Some([op |-> "get_endpoint_for_model", model_name |-> model_name,
                       ret |-> GetEndpointForModel(cfg[1].endpoints, model_name)])
    /\ UNCHANGED <<environ, cfg, cfgRead, unified, unifiedRead, norm, provider, generated,
                 restrictions, capabilities, validated,
                 registry, created, forwarded>>

\* cfg.has_custom_endpoint(model_name)
CallHasCustomEndpoint(model_name) ==
    /\ cfg # None
    /\ called = None
    /\ called' = Some([op |-> "has_custom_endpoint", model_name |-> model_name,
                       ret |-> HasCustomEndpoint(cfg[1].endpoints, model_name)])
    /\ UNCHANGED <<environ, cfg, cfgRead, unified, unifiedRead, norm, provider, generated,
                 restrictions, capabilities, validated,
                 registry, created, forwarded>>

\* the resolver: construction and lookups
NextResolver ==
    \/ \E pt \in ProviderTypes : NewEndpointConfig(pt)
    \/ \E m \in ModelNames : CallGetEndpointForModel(m)
    \/ \E m \in ModelNames : CallHasCustomEndpoint(m)

SpecResolver == Init /\ [][NextResolver]_vars

\* construction of the two objects that load endpoint maps
NextLoad ==
    \/ \E pt \in ProviderTypes : NewEndpointConfig(pt)
    \/ NewUnifiedOpenAIProvider

SpecLoad == Init /\ [][NextLoad]_vars

\* _normalize_model_name on its own: a model name is normalized, and the
\* result normalized again
InitNormalize ==
    /\ environ = <<>>
    /\ cfg = None
    /\ cfgRead = None
    /\ unified = None
    /\ unifiedRead = None
    /\ called = None
    /\ norm \in {<<m>> : m \in ModelNames}
    /\ provider = None
    /\ generated = None
    /\ restrictions = {}
    /\ capabilities = <<>>
    /\ validated = None
    /\ registry = None
    /\ created = 0
    /\ forwarded = None

Normalize ==
    /\ norm # <<>>
    /\ Len(norm) < 3
    /\ norm' = Append(norm, NormalizeModelName(norm[Len(norm)]))
    /\ UNCHANGED <<environ, cfg, cfgRead, unified, unifiedRead, called, provider, generated,
                 restrictions, capabilities, validated,
                 registry, created, forwarded>>

SpecNormalize == InitNormalize /\ [][Normalize]_vars

\* os.environ[name] = value, before an adapter is constructed
SetEnv(name, value) ==
    /\ provider = None
    /\ DictHas(environ, name) \/ Len(environ) < MaxEnv
    /\ environ' = DictSet(environ, name, value)
    /\ UNCHANGED <<cfg, cfgRead, unified, unifiedRead, called, norm, provider, generated,
                 restrictions, capabilities, validated,
                 registry, created, forwarded>>

\* import of providers/openai_provider.py: the class body builds the class
\* attribute _endpoint_config = EndpointConfig("openai"), once
ImportOpenAIProvider ==
    /\ cfg = None
    /\ \E read \in OpenAIFileReads \cup {Unreadable} :
        LET opens == GetEnv(environ, ConfigVar(S_openai), "") # ""
        IN  /\ opens \/ read = Unreadable
            /\ cfg' = Some([provider_type |-> S_openai,
                            endpoints |-> LoadEndpoints(environ, read, S_openai)])
            /\ cfgRead' = IF opens THEN Some(read) ELSE None
            /\ UNCHANGED <<environ, unified, unifiedRead, called, norm, provider, generated,
                 restrictions, capabilities, validated,
                 registry, created, forwarded>>

\* OpenAIModelProvider(api_key, model_name): model_name is None or a name
NewOpenAIModelProvider(api_key, model_name) ==
    /\ cfg # None
    /\ provider = None
    /\ provider' = Some([args |-> [api_key |-> api_key, model_name |-> model_name],
                         self |-> OpenAIInit(cfg[1].endpoints, api_key, model_name, None)])
    /\ UNCHANGED <<environ, cfg, cfgRead, unified, unifiedRead, called, norm, generated,
                 restrictions, capabilities, validated,
                 registry, created, forwarded>>

\* provider.generate_content(prompt, model_name): the call's outcome is kept,
\* and the adapter and the class's map are as the call leaves them
CallGenerateContent(model_name) ==
    /\ provider # None
    /\ ~IsRaised(provider[1].self)
    /\ LET after == GenerateContentEffect(cfg[1].endpoints, provider[1].self, model_name)
       IN  /\ provider' = Some([provider[1] EXCEPT !.self = after.self])
           /\ cfg' = Some([cfg[1] EXCEPT !.endpoints = after.endpoints])
    /\ generated' = Some([model_name |-> model_name,
                          ret |-> GenerateContent(cfg[1].endpoints, provider[1].self,
                                                  model_name, 0)])
    /\ UNCHANGED <<environ, cfgRead, unified, unifiedRead, called, norm,
                   restrictions, capabilities, validated,
                   registry, created, forwarded>>

\* the OpenAI adapter: a process that sets its environment, loads the
\* provider module, constructs an adapter and generates with it
InitOpenAI ==
    /\ environ = <<>>
    /\ cfg = None
    /\ cfgRead = None
    /\ unified = None
    /\ unifiedRead = None
    /\ called = None
    /\ norm = <<>>
    /\ provider = None
    /\ generated = None
    /\ restrictions = {}
    /\ capabilities = <<>>
    /\ validated = None
    /\ registry = None
    /\ created = 0
    /\ forwarded = None

Next ==
    \/ \E name \in OpenAIEnvNames, value \in EnvValues : SetEnv(name, value)
    \/ ImportOpenAIProvider
    \/ \E k \in ApiKeys, m \in {None} \cup {Some(n) : n \in OpenAIModelNames} :
          NewOpenAIModelProvider(k, m)
    \/ \E m \in OpenAIModelNames : CallGenerateContent(m)

Spec == InitOpenAI /\ [][Next]_vars

\* provider.get_capabilities(model_name); the calls are kept in order
CallGetCapabilities(model_name) ==
    /\ provider # None
    /\ ~IsRaised(provider[1].self)
    /\ Len(capabilities) < MaxCalls
    /\ capabilities' = Append(capabilities,
                              [model_name |-> model_name,
                               ret |-> GetCapabilities(restrictions, model_name)])
    /\ UNCHANGED <<environ, cfg, cfgRead, unified, unifiedRead, called, norm,
                   provider, generated, restrictions, validated,
                 registry, created, forwarded>>

\* provider.validate_model_name(model_name)
CallValidateModelName(model_name) ==
    /\ provider # None
    /\ ~IsRaised(provider[1].self)
    /\ validated = None
    /\ validated' = Some([model_name |-> model_name,
                          ret |-> ValidateModelName(restrictions, model_name)])
    /\ UNCHANGED <<environ, cfg, cfgRead, unified, unifiedRead, called, norm,
                   provider, generated, restrictions, capabilities,
                 registry, created, forwarded>>

\* the capability table of the OpenAI adapter: a process under some
\* restriction policy loads the provider module, constructs an adapter and
\* asks it about model names
InitCapabilities ==
    /\ environ = <<>>
    /\ cfg = None
    /\ cfgRead = None
    /\ unified = None
    /\ unifiedRead = None
    /\ called = None
    /\ norm = <<>>
    /\ provider = None
    /\ generated = None
    /\ restrictions \in Policies
    /\ capabilities = <<>>
    /\ validated = None
    /\ registry = None
    /\ created = 0
    /\ forwarded = None

NextCapabilities ==
    \/ ImportOpenAIProvider
    \/ \E k \in ApiKeys : NewOpenAIModelProvider(k, None)
    \/ \E m \in CapabilityNames : CallGetCapabilities(m)
    \/ \E m \in CapabilityNames : CallValidateModelName(m)

SpecCapabilities == InitCapabilities /\ [][NextCapabilities]_vars

\* ModelProviderRegistry: an adapter that accepts model_name is registered
RegisterProvider(model_name) ==
    /\ ~DictHas(registry, model_name)
    /\ registry' = DictSet(registry, model_name,
                           [id |-> created + 1, class |-> "ModelProvider"])
    /\ created' = created + 1
    /\ UNCHANGED <<environ, cfg, cfgRead, unified, unifiedRead, called, norm,
                   provider, generated, restrictions, capabilities, validated,
                   forwarded>>

\* unified.generate_content / get_capabilities / supports_thinking_mode /
\* count_tokens (op) for model_name
CallUnified(op, model_name) ==
    /\ unified # None
    /\ Len(forwarded) < MaxCalls
    /\ LET r == UnifiedCall(unified[1], registry, created, op, model_name)
       IN  /\ unified' = Some(r.self)
           /\ created' = r.created
           /\ forwarded' = Append(forwarded,
                                  [op |-> op, model_name |-> model_name, ret |-> r.ret])
    /\ UNCHANGED <<environ, cfg, cfgRead, unifiedRead, called, norm,
                   provider, generated, restrictions, capabilities, validated,
                   registry>>

\* unified.validate_model_name(model_name)
CallUnifiedValidateModelName(model_name) ==
    /\ unified # None
    /\ Len(forwarded) < MaxCalls
    /\ forwarded' = Append(forwarded,
                           [op |-> "validate_model_name", model_name |-> model_name,
                            ret |-> [valid |-> UnifiedValidateModelName(
                                                   unified[1], registry, model_name)]])
    /\ UNCHANGED <<environ, cfg, cfgRead, unified, unifiedRead, called, norm,
                   provider, generated, restrictions, capabilities, validated,
                   registry, created>>

\* the unified adapter: a process in some environment registers providers,
\* constructs a unified adapter and calls it
InitUnified ==
    /\ environ \in UnifiedEnvironments
    /\ cfg = None
    /\ cfgRead = None
    /\ unified = None
    /\ unifiedRead = None
    /\ called = None
    /\ norm = <<>>
    /\ provider = None
    /\ generated = None
    /\ restrictions = {}
    /\ capabilities = <<>>
    /\ validated = None
    /\ registry = <<>>
    /\ created = 0
    /\ forwarded = <<>>

NextUnified ==
    \/ NewUnifiedOpenAIProvider
    \/ \E m \in RegistryModelNames : RegisterProvider(m)
    \/ \E op \in ForwardedOps, m \in UnifiedModelNames : CallUnified(op, m)
    \/ \E m \in UnifiedModelNames : CallUnifiedValidateModelName(m)

SpecUnified == InitUnified /\ [][NextUnified]_vars

\* serving: a process in some environment loads the provider module,
\* constructs an adapter and serves requests with it, in any order
ServeEnvironments ==
    { <<>>,
      << <<EndpointVar(S_openai, <<"O","3">>), "v1">> >>,
      << <<EndpointVar(S_openai, <<"M","I","N","I">>), "v1">> >>,
      << <<EndpointVar(S_openai, <<"M","I","N","I">>), "v1">>,
         <<ApiKeyVar(S_openai, <<"M","I","N","I">>), "v2">> >>,
      << <<EndpointVar(S_openai, <<"O","3">>), "v1">>,
         <<EndpointVar(S_openai, <<"M","I","N","I">>), "v2">> >> }

InitServe ==
    /\ environ \in ServeEnvironments
    /\ cfg = None
    /\ cfgRead = None
    /\ unified = None
    /\ unifiedRead = None
    /\ called = None
    /\ norm = <<>>
    /\ provider = None
    /\ generated = None
    /\ restrictions = {}
    /\ capabilities = <<>>
    /\ validated = None
    /\ registry = <<>>
    /\ created = 0
    /\ forwarded = <<>>

NextServe ==
    \/ ImportOpenAIProvider
    \/ \E k \in ApiKeys, m \in {None} \cup {Some(n) : n \in OpenAIModelNames} :
          NewOpenAIModelProvider(k, m)
    \/ \E m \in OpenAIModelNames : CallGenerateContent(m)
    \/ \E m \in OpenAIModelNames : CallGetCapabilities(m)
    \/ \E m \in OpenAIModelNames : CallValidateModelName(m)
    \/ \E m \in OpenAIModelNames : CallGetEndpointForModel(m)
    \/ \E m \in OpenAIModelNames : CallHasCustomEndpoint(m)

SpecServe == InitServe /\ [][NextServe]_vars

\* enumeration order: a process whose environment configures endpoints for
\* model names that differ only by separators constructs a resolver and asks it
OrderModelParts == { <<"O","_","3">>, <<"O","_","_","3">>, <<"O","3">> }

OrderEnvironments ==
    DictsUpTo({EndpointVar(S_openai, p) : p \in OrderModelParts}, EnvValues, MaxEnv)

InitOrder ==
    /\ environ \in OrderEnvironments
    /\ cfg = None
    /\ cfgRead = None
    /\ unified = None
    /\ unifiedRead = None
    /\ called = None
    /\ norm = <<>>
    /\ provider = None
    /\ generated = None
    /\ restrictions = {}
    /\ capabilities = <<>>
    /\ validated = None
    /\ registry = <<>>
    /\ created = 0
    /\ forwarded = <<>>

SpecOrder == InitOrder /\ [][NextResolver]_vars

-----------------------------------------------------------------------------
(* Properties of the resolver                                              *)

\* os.environ without one variable
RECURSIVE DictRemove(_, _)
DictRemove(d, k) ==
    IF d = <<>> THEN <<>>
    ELSE (IF Head(d)[1] = k THEN <<>> ELSE <<Head(d)>>) \o DictRemove(Tail(d), k)

\* the resolver's map and the last call on it
Endpoints == cfg[1].endpoints

IsGet == called # None /\ called[1].op = "get_endpoint_for_model"

IsHas == called # None /\ called[1].op = "has_custom_endpoint"

Asked == called[1].model_name

Returned == called[1].ret

\* the three matching rules of the lookup, between a configured key and a query
MatchesExactly(k, model_name) == k = NormalizeModelName(model_name)

MatchesIgnoringCase(k, model_name) ==
    StrLower(k) = StrLower(NormalizeModelName(model_name))

MatchesIgnoringDashes(k, model_name) ==
    RemoveChar(StrLower(k), "-") = RemoveChar(StrLower(NormalizeModelName(model_name)), "-")

\* C1: with <NS>_<MODEL>_ENDPOINT set to u and no configuration file set,
\* get_endpoint_for_model(lower-cased MODEL) returns exactly
\* {base_url: u, api_key: value of <NS>_<MODEL>_API_KEY or ""}, and
\* has_custom_endpoint returns true for the same name.
C1_EnvEndpointIsReturned ==
    (called # None /\ ~DictHas(environ, ConfigVar(cfg[1].provider_type))) =>
        \A part \in ModelParts :
            LET pt == cfg[1].provider_type
            IN  (DictHas(environ, EndpointVar(pt, part)) /\ Asked = StrLower(part)) =>
                    /\ IsGet => Returned = Some([base_url |-> DictGet(environ, EndpointVar(pt, part)),
                                                 api_key |-> GetEnv(environ, ApiKeyVar(pt, part), "")])
                    /\ IsHas => Returned = TRUE

C3_CaseMatchBeforeDashMatch ==
    IsGet =>
        LET same == {k \in DictKeys(Endpoints) : MatchesIgnoringCase(k, Asked)}
        IN  same # {} => Returned \in {Some(DictGet(Endpoints, k)) : k \in same}

\* C4: every key the environment scan stores is the normalized form of the
\* variable's <MODEL> part, so normalize(k) = k for each env-derived key k.
C4_EnvKeysAreNormalized ==
    (cfg # None /\ cfgRead = None) =>
        LET pt == cfg[1].provider_type
            parts == {p \in ModelParts : DictHas(environ, EndpointVar(pt, p))}
        IN  /\ DictKeys(Endpoints) = {NormalizeModelName(p) : p \in parts}
            /\ \A k \in DictKeys(Endpoints) : NormalizeModelName(k) = k

\* C5: with a readable file, a model configured in the file is answered with
\* the file's entry (also when the environment configures it too), and a model
\* configured only in the environment with the environment's entry.
C5_FileEntriesOnTop ==
    (IsGet /\ cfgRead # None /\ cfgRead[1].kind = "json") =>
        LET pt == cfg[1].provider_type
            fromFile == Section(cfgRead[1], pt \o S_endpoints)
            fromEnv == ScanEnviron(environ, environ, StrUpper(pt) \o <<"_">>, <<>>)
        IN  /\ DictHas(fromFile, Asked) => Returned = Some(DictGet(fromFile, Asked))
            /\ (DictHas(fromEnv, Asked) /\ ~DictHas(fromFile, Asked)) =>
                   Returned = Some(DictGet(fromEnv, Asked))

\* C6: lookup ignores the letter case of the query: a model name gets the
\* answer its lower-cased form gets, from get_endpoint_for_model and from
\* has_custom_endpoint, so two names that differ only in letter case get the
\* same answer.
C6_LookupIgnoresQueryCase ==
    called # None =>
        /\ IsGet => Returned = GetEndpointForModel(Endpoints, StrLower(Asked))
        /\ IsHas => Returned = HasCustomEndpoint(Endpoints, StrLower(Asked))

\* C6 witness: an upper-case query found the entry of a configured model
C6_Witness ==
    /\ IsHas
    /\ Asked = <<"O", "3">>
    /\ Returned = TRUE
    /\ DictHas(Endpoints, <<"o", "3">>)

\* C7: get_endpoint_for_model returns a configured entry or nothing, and
\* nothing exactly when no configured key matches the normalized query under
\* any of the three rules; has_custom_endpoint is false exactly then.
C7_AbsentIffNoRuleMatches ==
    called # None =>
        LET matching == {k \in DictKeys(Endpoints) :
                            \/ MatchesExactly(k, Asked)
                            \/ MatchesIgnoringCase(k, Asked)
                            \/ MatchesIgnoringDashes(k, Asked)}
        IN  /\ IsGet => /\ Returned \in {None} \cup {Some(DictGet(Endpoints, k)) : k \in DictKeys(Endpoints)}
                        /\ (Returned = None) <=> (matching = {})
            /\ IsHas => (Returned = FALSE) <=> (matching = {})

\* C7 witness: a lookup in a map with entries found none
C7_Witness ==
    /\ IsGet
    /\ Endpoints # <<>>
    /\ Returned = None

\* C8: when the configuration file cannot be read or parsed, the constructed
\* map (of an EndpointConfig and of a UnifiedOpenAIProvider) is the one built
\* from the same environment with no configuration file named.
C8_UnreadableFileIsNoFile ==
    /\ (cfg # None /\ cfgRead \in {Some(Unreadable), Some(Malformed)}) =>
           Endpoints = LoadEndpoints(DictRemove(environ, ConfigVar(cfg[1].provider_type)),
                                     Unreadable, cfg[1].provider_type)
    /\ (unified # None /\ unifiedRead \in {Some(Unreadable), Some(Malformed)}) =>
           unified[1].model_endpoints =
               LoadModelEndpoints(DictRemove(environ, S_UNIFIED_ENDPOINTS_CONFIG), Unreadable)

\* C8 witness: a resolver was constructed from an environment with an endpoint
\* variable and a configuration file that does not parse
C8_Witness ==
    /\ cfg # None
    /\ cfgRead = Some(Malformed)
    /\ Endpoints # <<>>

-----------------------------------------------------------------------------
(* The OpenAI adapter                                                      *)

\* the adapter constructed, its arguments, and the class's endpoint map
Self == provider[1].self

Args == provider[1].args

\* the override's key when the entry has one that is not empty, else the other key
KeyOr(endpoint_config, api_key) ==
    IF "api_key" \in DOMAIN endpoint_config /\ endpoint_config.api_key # ""
    THEN endpoint_config.api_key
    ELSE api_key

\* C9: when generate_content is called for a requested name that has an
\* override, the vendor call is made against the override's base URL, with the
\* override's key if that key is not empty and with the adapter's own key if
\* the override's key is empty or absent.
C9_GenerateUsesOverride ==
    (generated # None /\ HasCustomEndpoint(Endpoints, generated[1].model_name)) =>
        LET endpoint_config == GetEndpointForModel(Endpoints, generated[1].model_name)[1]
            ret == generated[1].ret
        IN  /\ ~IsRaised(ret)
            /\ ret.base_url = endpoint_config.base_url
            /\ ret.api_key \in {KeyOr(endpoint_config, Self.api_key),
                                KeyOr(endpoint_config, Args.api_key)}

\* C10: an adapter constructed with (api_key, model_name) has the override's
\* base URL, and the override's key when not empty and api_key otherwise, if
\* the resolver reports an override for model_name; it has api_key and the
\* default base URL if no model name is given or the name has no override.
C10_InitBindsOverride ==
    provider # None =>
        IF Args.model_name # None /\ HasCustomEndpoint(Endpoints, Args.model_name[1])
        THEN LET endpoint_config ==
                     GetEndpointForModel(Endpoints, Args.model_name[1])[1]
             IN  /\ ~IsRaised(Self)
                 /\ Self.base_url = endpoint_config.base_url
                 /\ Self.api_key = KeyOr(endpoint_config, Args.api_key)
        ELSE /\ ~IsRaised(Self)
             /\ Self.base_url = DefaultBaseUrl
             /\ Self.api_key = Args.api_key

\* the map a resolver built now, from the environment alone, would hold
EndpointsNow == LoadEndpoints(environ, Unreadable, S_openai)

\* C11: the adapter's endpoint map is built from the environment as it is when
\* the adapter is constructed: if OPENAI_<MODEL>_ENDPOINT is set before an
\* adapter is constructed with that model name, even after the provider module
\* was loaded, the adapter is bound to that override's base URL.  (No
\* configuration file is in play.)
C11_MapBuiltAtConstruction ==
    (/\ provider # None
     /\ Args.model_name # None
     /\ cfgRead = None
     /\ ~DictHas(environ, ConfigVar(S_openai))
     /\ HasCustomEndpoint(EndpointsNow, Args.model_name[1])) =>
        /\ ~IsRaised(Self)
        /\ Self.base_url =
               GetEndpointForModel(EndpointsNow, Args.model_name[1])[1].base_url

-----------------------------------------------------------------------------
(* The capability table                                                    *)

\* the name resolves to a canonical key; the policy rejects the request
Resolves(model_name) == DictHas(SUPPORTED_MODELS, ResolveModelName(model_name))

PolicyRejects(model_name) ==
    <<ResolveModelName(model_name), model_name>> \in restrictions

\* C12: get_capabilities and validate_model_name agree on every requested name
\* under every policy: a name that resolves to no canonical key is rejected by
\* both, a name whose (canonical, requested) pair the policy rejects is
\* rejected by both, and otherwise get_capabilities returns the descriptor of
\* the canonical name and validate_model_name returns true.
C12_CapabilitiesAgreeWithValidate ==
    /\ \A i \in DOMAIN capabilities :
         LET c == capabilities[i]
         IN  IF Resolves(c.model_name) /\ ~PolicyRejects(c.model_name)
             THEN c.ret = DictGet(SUPPORTED_MODELS, ResolveModelName(c.model_name))
             ELSE IsRaised(c.ret)
    /\ validated # None =>
         (validated[1].ret <=>
            (Resolves(validated[1].model_name) /\ ~PolicyRejects(validated[1].model_name)))
    /\ \A i \in DOMAIN capabilities :
         (validated # None /\ validated[1].model_name = capabilities[i].model_name) =>
            (validated[1].ret <=> ~IsRaised(capabilities[i].ret))

\* both operations were asked about a known name that the policy rejects
C12_Witness ==
    /\ validated # None
    /\ Resolves(validated[1].model_name)
    /\ PolicyRejects(validated[1].model_name)
    /\ ~validated[1].ret
    /\ \E i \in DOMAIN capabilities :
         /\ capabilities[i].model_name = validated[1].model_name
         /\ IsRaised(capabilities[i].ret)

\* the aliases the table lists for a canonical name
AliasesOf(canonical) == Range(DictGet(SUPPORTED_MODELS, canonical).aliases)

AllAliases == UNION {AliasesOf(k) : k \in DictKeys(SUPPORTED_MODELS)}

\* C13: for every alias of the table, get_capabilities(alias) returns the
\* descriptor get_capabilities(owning canonical name) returns, whenever the
\* policy allows both requests; a name that is neither a canonical key nor an
\* alias is rejected as unsupported.
C13_AliasSharesDescriptor ==
    /\ \A i, j \in DOMAIN capabilities :
         LET a == capabilities[i]
             c == capabilities[j]
         IN  (/\ DictHas(SUPPORTED_MODELS, c.model_name)
              /\ a.model_name \in AliasesOf(c.model_name)
              /\ <<c.model_name, a.model_name>> \notin restrictions
              /\ <<c.model_name, c.model_name>> \notin restrictions) =>
                 /\ ~IsRaised(a.ret)
                 /\ a.ret = c.ret
                 /\ a.ret.model_name = c.model_name
    /\ \A i \in DOMAIN capabilities :
         LET u == capabilities[i]
         IN  (~DictHas(SUPPORTED_MODELS, u.model_name) /\ u.model_name \notin AllAliases) =>
                 u.ret = Raises("ValueError: Unsupported OpenAI model")

\* an alias and its canonical name were both asked for and both answered
C13_Witness ==
    \E i, j \in DOMAIN capabilities :
        /\ capabilities[i].model_name = <<"o","3","m","i","n","i">>
        /\ capabilities[j].model_name = <<"o","3","-","m","i","n","i">>
        /\ ~IsRaised(capabilities[i].ret)
        /\ capabilities[i].ret = capabilities[j].ret

-----------------------------------------------------------------------------
(* The unified adapter                                                     *)

\* the unified adapter's cache and endpoint map; a logged call was forwarded
ProviderCache == unified[1].provider_cache

ModelEndpoints == unified[1].model_endpoints

IsForwarded(call) == call.op \in ForwardedOps /\ "to" \in DOMAIN call.ret

\* the model has a configured endpoint, as the unified adapter sees it
HasConfiguredEndpoint(model_name) ==
    IsTruthy(UnifiedGetEndpointForModel(ModelEndpoints, model_name))

\* the last call of the log after a step that made a call
LastCall == forwarded'[Len(forwarded')]

\* C14: the per-model adapter cache is append-only and gives instance reuse:
\* over any sequence of generate_content, get_capabilities,
\* supports_thinking_mode and count_tokens calls, an entry once stored under a
\* model name is never removed or replaced, and every later call for the same
\* model name is forwarded to the very same adapter instance that served the
\* first call.
C14_CacheAppendOnlyAndReuse ==
    /\ [](\A i, j \in DOMAIN forwarded :
            (/\ i < j
             /\ forwarded[i].model_name = forwarded[j].model_name
             /\ IsForwarded(forwarded[i])
             /\ forwarded[j].op \in ForwardedOps) =>
                /\ IsForwarded(forwarded[j])
                /\ forwarded[j].ret.to = forwarded[i].ret.to
                /\ DictHas(ProviderCache, forwarded[i].model_name)
                /\ DictGet(ProviderCache, forwarded[i].model_name) = forwarded[i].ret.to)
    /\ [][(unified # None /\ unified' # None) =>
            \A k \in DictKeys(unified[1].provider_cache) :
                /\ DictHas(unified'[1].provider_cache, k)
                /\ DictGet(unified'[1].provider_cache, k)
                       = DictGet(unified[1].provider_cache, k)]_vars

\* two different operations for one model name were served by one instance
C14_Witness ==
    /\ Len(forwarded) = 2
    /\ forwarded[1].model_name = forwarded[2].model_name
    /\ forwarded[1].op = "generate_content"
    /\ forwarded[2].op = "count_tokens"
    /\ IsForwarded(forwarded[1])
    /\ IsForwarded(forwarded[2])
    /\ forwarded[1].ret.to = forwarded[2].ret.to

\* C15: a model with a configured custom endpoint is always routed to a
\* custom-endpoint adapter constructed with that entry's base URL and API key,
\* in preference to any adapter the registry would return for the name; the
\* registry's adapter serves only models without a configured endpoint.
C15_EndpointBeforeRegistry ==
    \A i \in DOMAIN forwarded :
        LET call == forwarded[i]
            entry == UnifiedGetEndpointForModel(ModelEndpoints, call.model_name)[1]
        IN  call.op \in ForwardedOps =>
              /\ HasConfiguredEndpoint(call.model_name) =>
                    /\ IsForwarded(call)
                    /\ call.ret.to.class = "CustomProvider"
                    /\ call.ret.to.base_url = entry.base_url
                    /\ call.ret.to.api_key =
                          (IF "api_key" \in DOMAIN entry THEN entry.api_key ELSE "")
              /\ (IsForwarded(call) /\ call.ret.to.class = "ModelProvider") =>
                    ~HasConfiguredEndpoint(call.model_name)

\* a model with a configured endpoint, for which the registry had a provider
\* already, was served by the custom-endpoint adapter
C15_Witness ==
    \E i \in DOMAIN forwarded :
        /\ IsForwarded(forwarded[i])
        /\ HasConfiguredEndpoint(forwarded[i].model_name)
        /\ forwarded[i].ret.to.class = "CustomProvider"
        /\ DictHas(registry, forwarded[i].model_name)
        /\ DictGet(registry, forwarded[i].model_name).id < forwarded[i].ret.to.id

\* C16: generate_content and get_capabilities for a model that has neither a
\* configured endpoint nor a registry provider fail with the "no provider
\* found" error, forward no call and leave the cache unchanged; this happens
\* exactly for the model names on which validate_model_name returns false.
C16_NoProviderIffInvalid ==
    [][(/\ unified # None
        /\ Len(forwarded') = Len(forwarded) + 1
        /\ LastCall.op \in {"generate_content", "get_capabilities"}) =>
          LET fails == LastCall.ret = Raises("ValueError: No provider found for model")
          IN  /\ fails <=> ~UnifiedValidateModelName(unified[1], registry,
                                                     LastCall.model_name)
              /\ fails <=> (/\ ~HasConfiguredEndpoint(LastCall.model_name)
                            /\ GetProviderForModel(registry, LastCall.model_name) = None)
              /\ fails => (unified' = unified /\ created' = created)
              /\ ~fails => IsForwarded(LastCall)]_vars

\* validate_model_name returned false for a name and generate_content for
\* that name failed, the cache staying empty
C16_Witness ==
    /\ Len(forwarded) = 2
    /\ forwarded[1].op = "validate_model_name"
    /\ ~forwarded[1].ret.valid
    /\ forwarded[2].op = "generate_content"
    /\ forwarded[2].model_name = forwarded[1].model_name
    /\ IsRaised(forwarded[2].ret)
    /\ ProviderCache = <<>>

-----------------------------------------------------------------------------
(* Delegation, frame and order                                             *)

\* C17: every generate_content call on an OpenAI adapter ends after exactly
\* one vendor call: with an override for the requested name the call is
\* delegated once to a transient adapter, which makes the vendor call with the
\* resolved canonical name and does not delegate again, also when the resolved
\* name itself matches an override.  (Overrides that have an API key, so that
\* the transient adapter can be constructed.)
C17_DelegatesOnce ==
    (/\ generated # None
     /\ HasCustomEndpoint(Endpoints, generated[1].model_name) =>
          "api_key" \in DOMAIN GetEndpointForModel(Endpoints, generated[1].model_name)[1]) =>
        LET ret == generated[1].ret
        IN  /\ ~IsRaised(ret)
            /\ ret.model = ResolveModelName(generated[1].model_name)
            /\ ret.delegations =
                  (IF HasCustomEndpoint(Endpoints, generated[1].model_name) THEN 1 ELSE 0)

Reverse(d) == [i \in DOMAIN d |-> d[Len(d) + 1 - i]]

\* C19: the entry get_endpoint_for_model returns depends only on the set of
\* configured (key, entry) pairs and on the query, not on the order in which
\* the environment was enumerated into the map: the resolver built from the
\* same environment enumerated in the opposite order, when it holds the same
\* pairs, gives the same answer.
C19_LookupIgnoresOrder ==
    LET other == LoadEndpoints(Reverse(environ), Unreadable, S_openai)
    IN  (IsGet /\ cfgRead = None /\ Range(other) = Range(Endpoints)) =>
            GetEndpointForModel(other, Asked) = Returned

=============================================================================
